---- MODULE Spec2Model ----
(***************************************************************************)
(* The jumping-jack toy: six browser scripts that load one GLTF model,     *)
(* find its named nodes, optionally mirror them as physics bodies, and     *)
(* drive them from mouse, wheel and animation-frame callbacks.             *)
(*                                                                         *)
(*   "plain"     src/unnamed/part_000   no physics, tilt and eased spin    *)
(*   "fallback"  src/unnamed/part_001   Cannon, with kinematic fallback    *)
(*   "ammo5"     src/unnamed/part_002   Ammo, torso and four limbs         *)
(*   "motor"     src/unnamed/part_003   Ammo, anchor, torso, hinge motor   *)
(*   "cannon"    src/app.js 1..680      Cannon, kinematic body and limbs   *)
(*   "ammo"      src/app.js 681..1793   Ammo, anchor, torso, limbs         *)
(*                                                                         *)
(* JavaScript runs every handler to completion, so each handler is one     *)
(* action.  Lengths that the scripts keep as floating-point numbers are    *)
(* kept here as integers in a fixed unit that is named at each definition. *)
(***************************************************************************)
EXTENDS Integers, Sequences, FiniteSets, TLC

----------------------------------------------------------------------------
(* Bounds of the model *)

\* the scene graphs that are loaded hold at most this many limb nodes
MaxLimbs == 1
\* the physics engines place a body in one of the poses 0..MaxPose, or at NaN
MaxPose == 1
\* at most this many animate callbacks are let to wait for the next frame
MaxPending == 2
\* the window is 2*HalfWidth pixels wide and 2*HalfHeight pixels high
HalfWidth == 1
HalfHeight == 1
\* the clock ticks SpinTicks times in one SPIN_DURATION, and MaxTime times in all
SpinTicks == 2
MaxTime == 3
\* at most this many eased spins run at once
MaxSpins == 1
\* where wheel events come together with the other events, the camera travels at
\* most this many zoom steps from its first distance
MaxZoomTravel == 2
\* the frame timestamps the browser hands to animate run from 0 to MaxStamp
MaxStamp == 1

----------------------------------------------------------------------------
(* Program constants *)

\* zoom distances are counted in tenths of a scene unit
ZOOM_SPEED == 1
MIN_ZOOM_DISTANCE == 50
MAX_ZOOM_DISTANCE == 250
InitialZoomDistance == 120

\* the hinge motor, in radians per second and in torque units
MOTOR_TARGET_SPEED == 8
MOTOR_MAX_TORQUE == 15
InitialMotorTorque == 10

\* btCollisionObject::CF_KINEMATIC_OBJECT
CF_KINEMATIC_OBJECT == 2

\* angles are counted in units of PI/24
PI == 24
maxToyTiltX == PI \div 6
maxToyTiltY == PI \div 8

\* the duration of an eased spin, in clock ticks
SPIN_DURATION == SpinTicks

\* toyGroupRef.rotation.y holds the angle (num/den) * PI/24 as the integer RotationY(num, den),
\* toyGroupRef.rotation.x as RotationX(num, den); every den used divides the scale
EaseDen == SPIN_DURATION * SPIN_DURATION * SPIN_DURATION
RotationY(num, den) == (num * HalfWidth * EaseDen) \div den
RotationX(num, den) == (num * HalfHeight) \div den

Variants == {"plain", "fallback", "ammo5", "motor", "cannon", "ammo"}
AmmoMotorVariants == {"motor", "ammo"}
CannonVariants == {"fallback", "cannon"}
WheelVariants == Variants \ {"plain"}

Limbs == {"leftArm", "rightArm", "leftLeg", "rightLeg"}
Parts == {"torso"} \cup Limbs
BodyNames == {"anchor", "body", "torso"} \cup Limbs

NaN == -1
Poses == 0 .. MaxPose
TVals == Poses \cup {NaN}
isNaN(t) == t = NaN

----------------------------------------------------------------------------
VARIABLES
    variant,              \* which of the six scripts runs
    currentZoomDistance,  \* camera distance, in tenths
    \* start-up and loading
    scriptDone,           \* the top-level statements of the script have run
    ammoScript,           \* a global Ammo exists (typeof Ammo !== 'undefined') when the script starts
    ammoTimer,            \* part_002: setTimeout(initAmmoPhysics, 100) is armed
    ammoPromise,          \* state of the promise returned by Ammo()
    AmmoLib,              \* AmmoLib is set (non-null)
    physicsWorld,         \* physicsWorld is set
    loadState,            \* state of loader.load and of its success callback
    \* scene graph
    toyGroupRef,          \* toyGroupRef is set
    refs,                 \* the parts whose reference (bodyMainRef, leftArmRef, ...) is set
    parent,               \* parent of each limb: the GLTF hierarchy or the scene
    meshT,                \* pose of each part's render object; "toy" is toyGroupRef
    toyRotation,          \* toyGroupRef.rotation.x / .y as written by the kinematic code
    badBox,               \* the parts whose node has an empty bounding box
    \* physics
    rigidBodies,          \* names of the rigid bodies that exist
    collisionFlags,       \* collision flags of each body
    bodyT,                \* pose of each body's world transform
    constraints,          \* names of the hinge constraints that exist
    physicsMeshMap,       \* the parts whose render object physicsMeshMap maps to a body
    motor,                \* angular motor of constraints.spinHinge
    \* input
    mouse,                \* mouse.x, mouse.y as numerators over HalfWidth, HalfHeight
    tilt,                 \* app.js, Cannon: the two angles held by tiltQuaternion
    targetAnchor,         \* targetAnchorX / targetAnchorZ, in units of 1/AnchorUnits
    spinChains,           \* part_000: the animateSpin chains that wait for a frame
    now,                  \* Date.now(), in clock ticks
    \* frame loop
    pendingAnimate,       \* animate callbacks registered with requestAnimationFrame
    stamp,                \* the timestamp of the browser's latest frame
    lastTime,             \* lastTime of the Ammo scripts
    delta,                \* the time step the latest animate call computed
    currentAnchor,        \* currentAnchorX / currentAnchorZ, in units of 1/AnchorUnits
    \* observation of the run (not program state)
    lastHandler,          \* the handler that ran last, whether it threw, and the steps
                          \* it made in order when it was animate
    lastButton,           \* the last of mousedown / mouseup ("up" before the first)
    spinDir,              \* direction of the last spin a mousedown started
    prevSpinDir,          \* direction of the spin started before that
    torsoWritten,         \* application code wrote the torso body's transform
    faulted               \* some animate call met an exception

sceneVars == <<toyGroupRef, refs, parent, meshT, toyRotation, badBox>>
physVars == <<rigidBodies, collisionFlags, bodyT, constraints, physicsMeshMap, motor>>
startVars == <<scriptDone, ammoScript, ammoTimer, ammoPromise, AmmoLib, physicsWorld>>
inputVars == <<mouse, tilt, targetAnchor>>
spinVars == <<spinChains, now>>
loopVars == <<pendingAnimate, stamp, lastTime, delta, currentAnchor>>
obsVars == <<lastButton, spinDir, prevSpinDir, torsoWritten, faulted>>

vars == <<variant, currentZoomDistance, startVars, loadState, sceneVars, physVars,
          inputVars, spinVars, loopVars, lastHandler, obsVars>>

NoMotor == [enabled |-> FALSE, target |-> 0, maxTorque |-> 0]
Handler(name, threw) == [name |-> name, threw |-> threw, log |-> <<>>]

\* The state in which script v starts: nothing loaded, nothing created.
Boot(v) ==
    /\ variant = v
    /\ currentZoomDistance = InitialZoomDistance
    /\ scriptDone = FALSE
    /\ ammoScript \in (IF v \in AmmoMotorVariants THEN BOOLEAN ELSE {FALSE})
    /\ ammoTimer = FALSE
    /\ ammoPromise = "none"
    /\ AmmoLib = FALSE
    /\ physicsWorld = (v \in CannonVariants)
    /\ loadState = "idle"
    /\ toyGroupRef = FALSE
    /\ refs = {}
    /\ parent = [l \in Limbs |-> "gltf"]
    /\ meshT = [p \in Parts \cup {"toy"} |-> 0]
    /\ toyRotation = [x |-> 0, y |-> 0]
    /\ badBox = {}
    /\ rigidBodies = {}
    /\ collisionFlags = [b \in BodyNames |-> 0]
    /\ bodyT = [b \in BodyNames |-> 0]
    /\ constraints = {}
    /\ physicsMeshMap = {}
    /\ motor = NoMotor
    /\ mouse = [x |-> 0, y |-> 0]
    /\ targetAnchor = [x |-> 0, z |-> 0]
    /\ tilt = [leftRight |-> 0, frontBack |-> 0]
    /\ spinChains = <<>>
    /\ now = 0
    /\ pendingAnimate = 0
    /\ stamp = 0
    /\ lastTime = 0
    /\ delta = 0
    /\ currentAnchor = [x |-> 0, z |-> 0]
    /\ lastHandler = Handler("none", FALSE)
    /\ lastButton = "up"
    /\ spinDir = 0
    /\ prevSpinDir = 0
    /\ torsoWritten = FALSE
    /\ faulted = FALSE

----------------------------------------------------------------------------
(* The wheel handler *)

Max(a, b) == IF a >= b THEN a ELSE b
Min(a, b) == IF a <= b THEN a ELSE b

\* event.deltaY values a wheel event may carry
DeltaYs == {-100, -1, 0, 1, 100}

\* a wheel handler that forgets the limits
ZoomNoClamp(z) == z

ZoomClamp(z) == Max(MIN_ZOOM_DISTANCE, Min(MAX_ZOOM_DISTANCE, z))

ZoomAfterWheel(z, deltaY) ==
    LET zoomDelta == IF deltaY > 0 THEN 1 ELSE -1
    IN  ZoomClamp(z + zoomDelta * ZOOM_SPEED)

onMouseWheel(deltaY) ==
    /\ variant \in WheelVariants
    /\ currentZoomDistance' = ZoomAfterWheel(currentZoomDistance, deltaY)
    /\ lastHandler' = Handler("wheel", FALSE)
    /\ UNCHANGED <<variant, startVars, loadState, sceneVars, physVars, inputVars,
                   spinVars, loopVars, obsVars>>

InitZoom == \E v \in WheelVariants : Boot(v)
NextZoom == \E deltaY \in DeltaYs : onMouseWheel(deltaY)
SpecZoom == InitZoom /\ [][NextZoom]_vars

----------------------------------------------------------------------------
(* The loaded scene graph *)

\* What a GLTF file holds, as far as the scripts look: whether a node named
\* body_main is there, which limb nodes are there, and which of these nodes have
\* an empty bounding box (a group without geometry).
\* The scripts treat the four limbs alike, so a scene with n limb nodes holds
\* the first n of LimbOrder.
LimbOrder == <<"leftArm", "rightArm", "leftLeg", "rightLeg">>
FirstLimbs(n) == {LimbOrder[i] : i \in 1 .. n}

Scenes ==
    { [body |-> b, limbs |-> FirstLimbs(n), badBox |-> bad] :
        b \in BOOLEAN,
        n \in 0 .. Min(MaxLimbs, Len(LimbOrder)),
        bad \in SUBSET Parts }

\* the scenes script v can tell apart: only the scripts of app.js measure boxes
\* or attach limbs, and only the Ammo scripts look for body_main
ScenesOf(v) ==
    { s \in Scenes :
        /\ s.badBox \subseteq (s.limbs \cup (IF s.body THEN {"torso"} ELSE {}))
        /\ (v \notin {"ammo", "cannon"} => s.badBox = {})
        /\ (v = "cannon" => ~s.body) }

----------------------------------------------------------------------------
(* Ammo motor scripts: rigid bodies and constraints *)

\* collision flags a body has when btRigidBody has constructed it
TorsoFlagsAtCreation == 0
AnchorFlagsAtCreation == 0

BitAnd2(flags) == (flags \div 2) % 2 = 1
WithKinematicFlag(flags) == IF BitAnd2(flags) THEN flags ELSE flags + CF_KINEMATIC_OBJECT

\* a validation that accepts every torso
validatePhysicsAuthorityNever(bodies, flags) == FALSE

\* validatePhysicsAuthority: TRUE when it throws
validatePhysicsAuthority(bodies, flags) ==
    \/ "torso" \notin bodies
    \/ BitAnd2(flags["torso"])

\* createRigidBodies that does not look at the bounding boxes of the limbs
createRigidBodiesAmmoNoBoxCheck(scene, refSet, lib, world) ==
    LET torsoFlags == [collisionFlags EXCEPT
                         !["anchor"] = WithKinematicFlag(AnchorFlagsAtCreation),
                         !["torso"] = TorsoFlagsAtCreation]
    IN  IF ~lib \/ "torso" \notin refSet \/ ~world
        THEN [bodies |-> {}, flags |-> collisionFlags, threw |-> FALSE]
        ELSE [bodies |-> {"anchor", "torso"} \cup (refSet \cap Limbs),
              flags |-> torsoFlags, threw |-> FALSE]

\* createRigidBodies of app.js: the bodies and flags it leaves, and whether it
\* threw, when btRigidBody constructs the bodies with the flags `made`
createRigidBodiesAmmoFrom(scene, refSet, lib, world, made) ==
    LET none == [bodies |-> {}, flags |-> collisionFlags, threw |-> FALSE]
        anchorFlags == [collisionFlags EXCEPT
                          !["anchor"] = WithKinematicFlag(made.anchor)]
        torsoFlags == [anchorFlags EXCEPT !["torso"] = made.torso]
        limbBodies == {l \in Limbs : l \in refSet /\ l \notin scene.badBox}
    IN  IF ~lib \/ "torso" \notin refSet \/ ~world
        THEN none
        ELSE IF "torso" \in scene.badBox
        THEN [bodies |-> {"anchor"}, flags |-> anchorFlags, threw |-> FALSE]
        ELSE IF validatePhysicsAuthority({"anchor", "torso"}, torsoFlags)
        THEN [bodies |-> {"anchor", "torso"}, flags |-> torsoFlags, threw |-> TRUE]
        ELSE [bodies |-> {"anchor", "torso"} \cup limbBodies, flags |-> torsoFlags,
              threw |-> FALSE]

\* createRigidBodies of app.js with the flags Ammo gives a new body
createRigidBodiesAmmo(scene, refSet, lib, world) ==
    createRigidBodiesAmmoFrom(scene, refSet, lib, world,
        [anchor |-> AnchorFlagsAtCreation, torso |-> TorsoFlagsAtCreation])

\* createConstraints that hinges every found limb, body or not
createConstraintsAmmoAnyLimb(bodies, refSet, lib, world) ==
    IF ~lib \/ ~world \/ "anchor" \notin bodies \/ "torso" \notin bodies
       \/ "torso" \notin refSet
    THEN {}
    ELSE {"spinHinge"} \cup (refSet \cap Limbs)

\* physicsMeshMap as the load callback of app.js fills it: the torso, and each
\* limb that has both a render object and a body
PhysicsMeshMapAmmo(bodies, refSet) ==
    {"torso"} \cup {l \in Limbs : l \in refSet /\ l \in bodies}

\* createConstraints of app.js: the constraints it stores
createConstraintsAmmo(bodies, refSet, lib, world) ==
    IF ~lib \/ ~world \/ "anchor" \notin bodies \/ "torso" \notin bodies
       \/ "torso" \notin refSet
    THEN {}
    ELSE {"spinHinge"} \cup {l \in Limbs : l \in bodies /\ l \in refSet}

\* createRigidBodies of part_003: anchor and torso, no validation, no limbs
createRigidBodiesMotor(refSet, lib, world) ==
    IF ~lib \/ "torso" \notin refSet \/ ~world
    THEN [bodies |-> {}, flags |-> collisionFlags]
    ELSE [bodies |-> {"anchor", "torso"},
          flags |-> [collisionFlags EXCEPT
                       !["anchor"] = WithKinematicFlag(AnchorFlagsAtCreation),
                       !["torso"] = TorsoFlagsAtCreation]]

\* createConstraints of part_003: the hinge, with its motor enabled at speed 0
createConstraintsMotor(bodies, lib, world) ==
    IF ~lib \/ ~world \/ "anchor" \notin bodies \/ "torso" \notin bodies
    THEN [names |-> {}, motor |-> NoMotor]
    ELSE [names |-> {"spinHinge"},
          motor |-> [enabled |-> TRUE, target |-> 0, maxTorque |-> InitialMotorTorque]]

\* createRigidBodies of part_002: createBoxBody returns null for a reference that
\* is missing and otherwise adds a body to the world, for the torso and for every
\* limb alike
createRigidBodies5(refSet) == {p \in Parts : p \in refSet}

\* createConstraints of part_002: nothing without the torso body, else a hinge
\* for every limb that has a body and a render object
createConstraints5(bodies, refSet) ==
    IF "torso" \notin bodies THEN {}
    ELSE {l \in Limbs : l \in bodies /\ l \in refSet}

\* a body starts at the world transform of the render object it mirrors
BodiesAtMeshes(bodies) ==
    [b \in BodyNames |->
        IF b \in bodies /\ b \in Parts THEN meshT[b] ELSE bodyT[b]]

\* a load that leaves the limbs in the GLTF hierarchy
attachNoLimbs(found) == parent

\* if (leftArmRef) scene.attach(leftArmRef); ... for the four limbs
attachLimbs(found) == [l \in Limbs |-> IF l \in found THEN "scene" ELSE parent[l]]

\* success callback of loader.load in initScene, app.js
LoadedAmmo(scene) ==
    LET refSet == (IF scene.body THEN {"torso"} ELSE {}) \cup scene.limbs
        made == IF "torso" \in refSet /\ physicsWorld
                THEN createRigidBodiesAmmo(scene, refSet, AmmoLib, physicsWorld)
                ELSE [bodies |-> {}, flags |-> collisionFlags, threw |-> FALSE]
        ready == ~made.threw /\ "anchor" \in made.bodies /\ "torso" \in made.bodies
        cons == IF ready
                THEN createConstraintsAmmo(made.bodies, refSet, AmmoLib, physicsWorld)
                ELSE {}
    IN  /\ toyGroupRef' = TRUE
        /\ refs' = refSet
        /\ parent' = attachLimbs(refSet)
        /\ rigidBodies' = made.bodies
        /\ collisionFlags' = made.flags
        /\ bodyT' = BodiesAtMeshes(made.bodies)
        /\ constraints' = cons
        /\ physicsMeshMap' = IF ready THEN PhysicsMeshMapAmmo(made.bodies, refSet)
                                      ELSE physicsMeshMap
        /\ motor' = NoMotor
        /\ badBox' = scene.badBox
        /\ loadState' = IF made.threw THEN "aborted" ELSE "loaded"
        /\ lastHandler' = Handler("load", made.threw)
        /\ UNCHANGED <<meshT, toyRotation>>

\* success callback of loader.load in initScene, part_003
LoadedMotor(scene) ==
    LET refSet == IF scene.body THEN {"torso"} ELSE {}
        made == IF "torso" \in refSet /\ physicsWorld
                THEN createRigidBodiesMotor(refSet, AmmoLib, physicsWorld)
                ELSE [bodies |-> {}, flags |-> collisionFlags]
        cons == IF "anchor" \in made.bodies /\ "torso" \in made.bodies
                THEN createConstraintsMotor(made.bodies, AmmoLib, physicsWorld)
                ELSE [names |-> {}, motor |-> NoMotor]
    IN  /\ toyGroupRef' = TRUE
        /\ refs' = refSet
        /\ rigidBodies' = made.bodies
        /\ collisionFlags' = made.flags
        /\ bodyT' = BodiesAtMeshes(made.bodies)
        /\ constraints' = cons.names
        /\ physicsMeshMap' = IF "anchor" \in made.bodies /\ "torso" \in made.bodies
                             THEN {"torso"} ELSE physicsMeshMap
        /\ motor' = cons.motor
        /\ loadState' = "loaded"
        /\ lastHandler' = Handler("load", FALSE)
        /\ UNCHANGED <<parent, meshT, toyRotation, badBox>>

----------------------------------------------------------------------------
(* The frame callback *)

\* What may go wrong inside one animate call: nothing, or the physics step, the
\* transform copy or the render raising an exception.
Faults == {"none", "step", "sync", "render"}

RenderLog(fault) == IF fault = "render" THEN <<>> ELSE <<"render">>

Flow(rafs, log, stepped, synced, threw) ==
    [rafs |-> rafs, log |-> log, stepped |-> stepped, synced |-> synced, threw |-> threw]

\* try { requestAnimationFrame; step; copy; render } catch { requestAnimationFrame; render }
\* copyCaught: the copy catches its own exceptions and the frame goes on to render
TryStepCopyRender(fault, copyCaught) ==
    CASE fault = "step"   -> Flow(2, <<"render">>, FALSE, FALSE, FALSE)
      [] fault = "sync"   -> IF copyCaught
                             THEN Flow(1, <<"step", "syncError", "render">>, TRUE, FALSE, FALSE)
                             ELSE Flow(2, <<"step", "render">>, TRUE, FALSE, FALSE)
      [] fault = "render" -> Flow(2, <<"step", "sync">>, TRUE, TRUE, TRUE)
      [] OTHER            -> Flow(1, <<"step", "sync", "render">>, TRUE, TRUE, FALSE)

\* a frame that registers nothing when the render throws
TryRenderNoRetry(fault) ==
    IF fault = "render"
    THEN Flow(0, <<>>, FALSE, FALSE, TRUE)
    ELSE Flow(1, <<"render">>, FALSE, FALSE, FALSE)

\* try { requestAnimationFrame; render } catch { requestAnimationFrame; render }
TryRender(fault) ==
    IF fault = "render"
    THEN Flow(2, <<>>, FALSE, FALSE, TRUE)
    ELSE Flow(1, <<"render">>, FALSE, FALSE, FALSE)

\* a setter without the torso guard
safeSetWorldTransformUnguarded(body, transform, T) ==
    [threw |-> FALSE, T |-> [T EXCEPT ![body] = transform]]

\* safeSetWorldTransform(body, transform) on the transforms T
safeSetWorldTransform(body, transform, T) ==
    IF body = "torso" /\ "torso" \in rigidBodies
    THEN [threw |-> TRUE, T |-> T]
    ELSE [threw |-> FALSE, T |-> [T EXCEPT ![body] = transform]]

\* the transform animate gives the anchor (the joint position; the cursor offset is 0)
AnchorPose == 0

\* the anchor update at the head of animate in app.js
AnchorUpdate(T) ==
    IF "anchor" \in rigidBodies
    THEN safeSetWorldTransform("anchor", AnchorPose, T)
    ELSE [threw |-> FALSE, T |-> T]

\* the anchor update at the head of animate in part_003
AnchorUpdateMotor(T) ==
    IF "anchor" \in rigidBodies THEN [T EXCEPT !["anchor"] = AnchorPose] ELSE T

\* the control flow of one animate call of script v; lib and world are the
\* values of AmmoLib and physicsWorld (or world) when it runs
animateFlow(v, fault, lib, world) ==
    CASE v = "plain" ->
            Flow(1, RenderLog(fault), FALSE, FALSE, fault = "render")
      [] v \in CannonVariants ->
            IF world /\ "body" \in rigidBodies
            THEN TryStepCopyRender(fault, FALSE)
            ELSE TryRender(fault)
      [] v = "ammo5" ->
            IF world
            THEN TryStepCopyRender(fault, TRUE)
            ELSE CASE fault = "render" -> Flow(2, <<"sync">>, FALSE, TRUE, TRUE)
                   [] fault = "sync"   -> Flow(1, <<"syncError", "render">>, FALSE, FALSE, FALSE)
                   [] OTHER            -> Flow(1, <<"sync", "render">>, FALSE, TRUE, FALSE)
      [] v = "motor" ->
            IF ~lib THEN TryRender(fault)
            ELSE IF world THEN TryStepCopyRender(fault, FALSE)
            ELSE TryRender(fault)
      [] v = "ammo" ->
            IF ~lib THEN TryRender(fault)
            ELSE IF AnchorUpdate(bodyT).threw
            THEN Flow(2, RenderLog(fault), FALSE, FALSE, fault = "render")
            ELSE IF world /\ fault = "step"
            THEN Flow(1, <<>>, FALSE, FALSE, FALSE)
            ELSE IF world THEN TryStepCopyRender(fault, TRUE)
            ELSE TryRender(fault)

\* the bodies a physics step moves
DynamicBodies ==
    IF variant \in CannonVariants THEN rigidBodies \cap Limbs
    ELSE rigidBodies \ {"anchor"}

Copy(M, part, T, body) == [M EXCEPT ![part] = T[body]]

\* fold the copy of every limb in ls into M
RECURSIVE CopyLimbs(_, _, _, _)
CopyLimbs(M, T, ls, skipNaN) ==
    IF ls = {} THEN M
    ELSE LET l == CHOOSE x \in ls : TRUE
             M1 == IF l \in rigidBodies /\ l \in refs /\ ~(skipNaN /\ isNaN(T[l]))
                   THEN Copy(M, l, T, l) ELSE M
         IN  CopyLimbs(M1, T, ls \ {l}, skipNaN)

\* a copy that forgets the limbs
syncPhysicsToThreeTorsoOnly(M, T, lib) ==
    IF ~lib \/ "torso" \notin rigidBodies \/ "torso" \notin refs \/ isNaN(T["torso"])
    THEN M ELSE Copy(M, "torso", T, "torso")

\* a copy without the guard on the limbs' parents
syncPhysicsToThreeNoParentGuard(M, T, lib) ==
    IF ~lib \/ "torso" \notin rigidBodies THEN M
    ELSE IF "torso" \in refs /\ isNaN(T["torso"]) THEN M
    ELSE CopyLimbs(IF "torso" \in refs THEN Copy(M, "torso", T, "torso") ELSE M,
                   T, Limbs, TRUE)

\* syncPhysicsToThree of app.js
syncPhysicsToThree(M, T, lib) ==
    IF ~lib \/ "torso" \notin rigidBodies THEN M
    ELSE IF \E l \in Limbs : l \in refs /\ parent[l] # "scene" THEN M
    ELSE IF "torso" \in refs /\ isNaN(T["torso"]) THEN M
    ELSE CopyLimbs(IF "torso" \in refs THEN Copy(M, "torso", T, "torso") ELSE M,
                   T, Limbs, TRUE)

\* syncPhysicsToThree of part_003
syncPhysicsToThreeMotor(M, T, lib) ==
    IF ~lib THEN M
    ELSE IF "torso" \in rigidBodies /\ "torso" \in refs
    THEN Copy(M, "torso", T, "torso") ELSE M

\* syncPhysicsToMeshes of part_002
syncPhysicsToMeshes(M, T) ==
    CopyLimbs(IF "torso" \in rigidBodies /\ "torso" \in refs
              THEN Copy(M, "torso", T, "torso") ELSE M,
              T, Limbs, FALSE)

\* the copy inside animate of the Cannon scripts
copyCannon(M, T) ==
    CopyLimbs(IF variant = "cannon" /\ toyGroupRef THEN Copy(M, "toy", T, "body") ELSE M,
              T, Limbs, FALSE)

SyncMeshes(M, T, lib) ==
    CASE variant = "ammo"  -> syncPhysicsToThree(M, T, lib)
      [] variant = "motor" -> syncPhysicsToThreeMotor(M, T, lib)
      [] variant = "ammo5" -> syncPhysicsToMeshes(M, T)
      [] variant \in CannonVariants -> copyCannon(M, T)
      [] OTHER -> M

\* the scripts whose animate computes a time step from its timestamp
DeltaVariants == {"ammo5", "motor", "ammo"}

\* the cap of the time step, 1/60 s; timestamps are counted in the same unit
DeltaCap == 1

\* Math.min((currentTime - lastTime) / 1000, 1/60); app.js first replaces a
\* lastTime of 0 by currentTime
DeltaOf(v, last, currentTime) ==
    LET from == IF v = "ammo" /\ last = 0 THEN currentTime ELSE last
    IN  Min(currentTime - from, DeltaCap)

\* the smooth factor of the anchor and the scale of the cursor offset
SMOOTH_FACTOR == 3
ANCHOR_RANGE == 2
\* the time steps in a second (DeltaCap is one of them)
StepsPerSecond == 60
\* anchor offsets are fixed-point numbers with AnchorUnits units to 1.0
AnchorUnits == StepsPerSecond \div SMOOTH_FACTOR

Abs(n) == IF n < 0 THEN -n ELSE n
\* n / d rounded towards zero
Trunc(n, d) == IF n < 0 THEN -((-n) \div d) ELSE n \div d

\* a smoothing that is not scaled by the frame time
SmoothAnchorUnscaled(current, target, d) ==
    current + (target - current) * d * SMOOTH_FACTOR

\* current += (target - current) * delta * 3, delta in steps of 1/60 s
SmoothAnchor(current, target, d) ==
    current + Trunc((target - current) * d * SMOOTH_FACTOR, StepsPerSecond)

\* one call of animate(currentTime): `consumed` callbacks leave the queue, the
\* physics step moves the dynamic bodies to the poses f
RunAnimate(consumed, fault, f, lib, world, currentTime) ==
    LET flow == animateFlow(variant, fault, lib, world)
        T0 == CASE variant = "ammo" /\ lib  -> AnchorUpdate(bodyT).T
                [] variant = "motor" /\ lib -> AnchorUpdateMotor(bodyT)
                [] OTHER -> bodyT
        T == IF flow.stepped
             THEN [b \in BodyNames |-> IF b \in DOMAIN f THEN f[b] ELSE T0[b]]
             ELSE T0
    IN  /\ pendingAnimate - consumed + flow.rafs <= MaxPending
        /\ pendingAnimate' = pendingAnimate - consumed + flow.rafs
        /\ stamp' = Max(stamp, currentTime)
        /\ lastTime' = IF variant \in DeltaVariants THEN currentTime ELSE lastTime
        /\ delta' = IF variant \in DeltaVariants
                    THEN DeltaOf(variant, lastTime, currentTime) ELSE delta
        /\ currentAnchor' =
              IF variant \in AmmoMotorVariants /\ lib /\ "anchor" \in rigidBodies
              THEN [x |-> SmoothAnchor(currentAnchor.x, targetAnchor.x,
                                       DeltaOf(variant, lastTime, currentTime)),
                    z |-> SmoothAnchor(currentAnchor.z, targetAnchor.z,
                                       DeltaOf(variant, lastTime, currentTime))]
              ELSE currentAnchor
        /\ bodyT' = T
        /\ meshT' = IF flow.synced THEN SyncMeshes(meshT, T, lib) ELSE meshT
        /\ torsoWritten' = (torsoWritten \/ T0["torso"] # bodyT["torso"])
        /\ faulted' = (faulted \/ flow # animateFlow(variant, "none", lib, world))
        /\ lastHandler' = [name |-> "animate", threw |-> flow.threw, log |-> flow.log]

StepOutcomes(fault, lib, world) ==
    IF animateFlow(variant, fault, lib, world).stepped
    THEN [DynamicBodies -> TVals]
    ELSE {[b \in DynamicBodies |-> bodyT[b]]}

\* the timestamps the browser may hand to the next frame callback: not before
\* the latest one; only the scripts of DeltaVariants read them
FrameStamps == IF variant \in DeltaVariants THEN stamp .. MaxStamp ELSE {stamp}

\* the browser runs one registered animate callback
AnimationFrame ==
    /\ pendingAnimate > 0
    /\ \E fault \in Faults : \E f \in StepOutcomes(fault, AmmoLib, physicsWorld) :
          \E currentTime \in FrameStamps :
              RunAnimate(1, fault, f, AmmoLib, physicsWorld, currentTime)
    /\ UNCHANGED <<variant, currentZoomDistance, startVars, loadState, toyGroupRef, refs,
                   parent, toyRotation, badBox, rigidBodies, collisionFlags, constraints, physicsMeshMap,
                   motor, inputVars, spinVars, lastButton, spinDir, prevSpinDir>>

----------------------------------------------------------------------------
(* Start-up *)

\* The top-level statements of the script: the Ammo scripts call initializeAmmo,
\* the others call loader.load; all of them end by calling animate().
RunScript ==
    /\ ~scriptDone
    /\ scriptDone' = TRUE
    /\ ammoPromise' = IF variant \in AmmoMotorVariants /\ ammoScript THEN "pending" ELSE "none"
    /\ loadState' = IF variant \in AmmoMotorVariants THEN "idle" ELSE "loading"
    /\ \E fault \in Faults : \E f \in StepOutcomes(fault, AmmoLib, physicsWorld) :
          RunAnimate(0, fault, f, AmmoLib, physicsWorld, 0)
    /\ UNCHANGED <<variant, currentZoomDistance, ammoScript, ammoTimer, AmmoLib,
                   physicsWorld, toyGroupRef, refs, parent, toyRotation, badBox, rigidBodies,
                   collisionFlags, constraints, physicsMeshMap, motor, inputVars, spinVars, lastButton,
                   spinDir, prevSpinDir>>

\* The callback given to Ammo().then: AmmoLib is stored, initPhysics makes the
\* world, initScene starts the load and animate() is called.  When initPhysics
\* throws, the rest of the callback is skipped and the .catch logs the error.
AmmoResolved ==
    /\ scriptDone
    /\ ammoPromise = "pending"
    /\ ammoPromise' = "resolved"
    /\ AmmoLib' = TRUE
    /\ \E initThrows \in BOOLEAN :
          IF initThrows
          THEN /\ lastHandler' = Handler("ammo", TRUE)
               /\ UNCHANGED <<physicsWorld, loadState, loopVars, bodyT, meshT, torsoWritten,
                              faulted>>
          ELSE /\ physicsWorld' = TRUE
               /\ loadState' = "loading"
               /\ \E fault \in Faults : \E f \in StepOutcomes(fault, TRUE, TRUE) :
                     RunAnimate(0, fault, f, TRUE, TRUE, 0)
    /\ UNCHANGED <<variant, currentZoomDistance, scriptDone, ammoScript, ammoTimer,
                   toyGroupRef, refs, parent, toyRotation, badBox, rigidBodies,
                   collisionFlags, constraints, physicsMeshMap, motor, inputVars, spinVars, lastButton,
                   spinDir, prevSpinDir>>

\* The promise of Ammo() is rejected: the .catch logs the error.
AmmoRejected ==
    /\ scriptDone
    /\ ammoPromise = "pending"
    /\ ammoPromise' = "rejected"
    /\ lastHandler' = Handler("ammo", TRUE)
    /\ UNCHANGED <<variant, currentZoomDistance, scriptDone, ammoScript, ammoTimer, AmmoLib,
                   physicsWorld, loadState, sceneVars, physVars, inputVars, spinVars,
                   loopVars, obsVars>>

----------------------------------------------------------------------------
(* The load callbacks of the other scripts *)

\* success callback of loader.load, app.js (Cannon): the limbs found are attached
\* to the scene, then setupPhysicsBodies makes the kinematic body, a body for each
\* limb found and a hinge for each limb body
LoadedCannon(scene) ==
    LET bodies == {"body"} \cup scene.limbs
    IN  /\ toyGroupRef' = TRUE
        /\ refs' = scene.limbs
        /\ parent' = attachLimbs(scene.limbs)
        /\ rigidBodies' = bodies
        /\ bodyT' = [BodiesAtMeshes(bodies) EXCEPT !["body"] = 0]
        /\ constraints' = scene.limbs
        /\ UNCHANGED physicsMeshMap
        /\ badBox' = scene.badBox
        /\ loadState' = "loaded"
        /\ lastHandler' = Handler("load", FALSE)
        /\ UNCHANGED <<meshT, toyRotation, collisionFlags, motor, ammoTimer>>

\* success callback of loader.load, part_001: findToyParts assigns the limb
\* references it finds and then reads all four of them; the script declares none,
\* so that the read of one that was not assigned is a ReferenceError
LoadedFallback(scene) ==
    LET threw == scene.limbs # Limbs
        bodies == IF threw THEN {} ELSE {"body"} \cup scene.limbs
    IN  /\ toyGroupRef' = TRUE
        /\ refs' = scene.limbs
        /\ rigidBodies' = bodies
        /\ bodyT' = [BodiesAtMeshes(bodies) EXCEPT !["body"] = 0]
        /\ constraints' = IF threw THEN {} ELSE scene.limbs
        /\ UNCHANGED physicsMeshMap
        /\ loadState' = IF threw THEN "aborted" ELSE "loaded"
        /\ lastHandler' = Handler("load", threw)
        /\ UNCHANGED <<parent, meshT, toyRotation, badBox, collisionFlags, motor, ammoTimer>>

\* success callback of loader.load, part_000
LoadedPlain ==
    /\ toyGroupRef' = TRUE
    /\ loadState' = "loaded"
    /\ lastHandler' = Handler("load", FALSE)
    /\ UNCHANGED <<refs, parent, meshT, toyRotation, badBox, physVars, ammoTimer>>

\* success callback of loader.load, part_002: initAmmoPhysics reads the script's
\* own binding `let Ammo`, which is undefined, and arms the retry timer
LoadedAmmo5(scene) ==
    /\ toyGroupRef' = TRUE
    /\ refs' = (IF scene.body THEN {"torso"} ELSE {}) \cup scene.limbs
    /\ ammoTimer' = TRUE
    /\ loadState' = "loaded"
    /\ lastHandler' = Handler("load", FALSE)
    /\ UNCHANGED <<parent, meshT, toyRotation, badBox, physVars>>

\* the loader calls the success callback with the scene it has read
LoadSuccess ==
    /\ loadState = "loading"
    /\ \E scene \in ScenesOf(variant) :
          CASE variant = "ammo"     -> LoadedAmmo(scene) /\ UNCHANGED ammoTimer
            [] variant = "motor"    -> LoadedMotor(scene) /\ UNCHANGED ammoTimer
            [] variant = "cannon"   -> LoadedCannon(scene)
            [] variant = "fallback" -> LoadedFallback(scene)
            [] variant = "ammo5"    -> LoadedAmmo5(scene)
            [] OTHER                -> LoadedPlain
    /\ UNCHANGED <<variant, currentZoomDistance, scriptDone, ammoScript, ammoPromise,
                   AmmoLib, physicsWorld, inputVars, spinVars, loopVars, obsVars>>

\* the loader calls the error callback, which logs
LoadError ==
    /\ loadState = "loading"
    /\ loadState' = "failed"
    /\ lastHandler' = Handler("loadError", FALSE)
    /\ UNCHANGED <<variant, currentZoomDistance, startVars, sceneVars, physVars, inputVars,
                   spinVars, loopVars, obsVars>>

\* part_002: the retry timer fires; initAmmoPhysics reads `Ammo` again and,
\* as it is still undefined, arms the timer again
AmmoPoll ==
    /\ variant = "ammo5"
    /\ ammoTimer
    /\ ammoTimer' = TRUE
    /\ lastHandler' = Handler("poll", FALSE)
    /\ UNCHANGED <<variant, currentZoomDistance, scriptDone, ammoScript, ammoPromise, AmmoLib,
                   physicsWorld, loadState, sceneVars, physVars, inputVars, spinVars,
                   loopVars, obsVars>>

\* part_002: the script of the Ammo loader finishes loading and defines the
\* global Ammo; the binding of the top-level `let Ammo` of part_002, which is
\* the one initAmmoPhysics reads, stays undefined
AmmoScriptLoads ==
    /\ variant = "ammo5"
    /\ scriptDone
    /\ ~ammoScript
    /\ ammoScript' = TRUE
    /\ lastHandler' = Handler("ammoScript", FALSE)
    /\ UNCHANGED <<variant, currentZoomDistance, scriptDone, ammoTimer, ammoPromise, AmmoLib,
                   physicsWorld, loadState, sceneVars, physVars, inputVars, spinVars,
                   loopVars, obsVars>>

----------------------------------------------------------------------------
(* Mouse handlers *)

\* event.clientX and event.clientY of a mouse event
ClientXs == 0 .. 2 * HalfWidth
ClientYs == 0 .. 2 * HalfHeight

\* mouse.x = (clientX / innerWidth) * 2 - 1 and mouse.y = -(clientY / innerHeight) * 2 + 1,
\* as numerators over HalfWidth and HalfHeight
MouseOf(clientX, clientY) == [x |-> clientX - HalfWidth, y |-> HalfHeight - clientY]

\* the angles updateToyInteraction computes from the mouse position m,
\* as numerators over HalfWidth and HalfHeight, in units of PI/24
\* the left/right angle computed with the limit of the other axis
leftRightAngleSwapped(m) == m.x * maxToyTiltX
leftRightAngle(m) == m.x * maxToyTiltY
frontBackAngle(m) == m.y * maxToyTiltX

\* toyGroupRef.rotation after the direct tilt of part_000 and part_001
TiltRotation(m) ==
    [x |-> RotationX(frontBackAngle(m), HalfHeight),
     y |-> RotationY(leftRightAngle(m), HalfWidth)]

\* tiltQuaternion of app.js after updateToyInteraction
TiltAngles(m) == [leftRight |-> leftRightAngle(m), frontBack |-> frontBackAngle(m)]

\* a read of stickObjectRef that comes before the test of toyGroupRef
StickObjectRefThrowsFirst == TRUE

\* updateToyInteraction of part_000 reads stickObjectRef, which no script declares
StickObjectRefThrows == toyGroupRef

\* targetAnchorX = mouse.x * 2.0; targetAnchorZ = mouse.y * 2.0
TargetAnchorOf(m) ==
    [x |-> (m.x * ANCHOR_RANGE * AnchorUnits) \div HalfWidth,
     z |-> (m.y * ANCHOR_RANGE * AnchorUnits) \div HalfHeight]

onMouseMove(clientX, clientY) ==
    LET m == MouseOf(clientX, clientY)
    IN  /\ scriptDone
        /\ mouse' = m
        /\ targetAnchor' = IF variant \in AmmoMotorVariants THEN TargetAnchorOf(m)
                                                           ELSE targetAnchor
        /\ CASE variant = "plain" ->
                  /\ lastHandler' = Handler("mousemove", StickObjectRefThrows)
                  /\ UNCHANGED <<toyRotation, tilt, bodyT>>
             [] variant = "fallback" ->
                  /\ toyRotation' = IF "body" \notin rigidBodies /\ toyGroupRef
                                    THEN TiltRotation(m) ELSE toyRotation
                  /\ lastHandler' = Handler("mousemove", FALSE)
                  /\ UNCHANGED <<tilt, bodyT>>
             [] variant = "cannon" ->
                  /\ IF "body" \in rigidBodies
                     THEN /\ tilt' = TiltAngles(m)
                          /\ \E q \in Poses : bodyT' = [bodyT EXCEPT !["body"] = q]
                     ELSE UNCHANGED <<tilt, bodyT>>
                  /\ lastHandler' = Handler("mousemove", FALSE)
                  /\ UNCHANGED toyRotation
             [] OTHER ->
                  /\ lastHandler' = Handler("mousemove", FALSE)
                  /\ UNCHANGED <<toyRotation, tilt, bodyT>>
        /\ UNCHANGED <<variant, currentZoomDistance, startVars, loadState, toyGroupRef, refs,
                       parent, meshT, badBox, rigidBodies, collisionFlags, constraints, physicsMeshMap,
                       motor, spinVars, loopVars, obsVars>>

\* Math.random() > 0.5 ? 1 : -1
Directions == {1, -1}
\* (Math.random() - 0.5) * Math.PI * 4, in units of PI/24
RandomAngles == {-2 * PI, PI}

\* a progress that is not capped at the end of the spin
SpinProgressUncapped(elapsed) == elapsed

\* progress and eased angle of an eased spin `elapsed` ticks after its start
SpinProgress(elapsed) == Min(elapsed, SPIN_DURATION)
SpinAngle(randomAngle, elapsed) ==
    LET rest == SPIN_DURATION - SpinProgress(elapsed)
    IN  RotationY(randomAngle * (EaseDen - rest * rest * rest), EaseDen)

\* a press that takes the direction itself for the target speed
MotorOnMouseDownUnscaled(direction) ==
    [enabled |-> TRUE, target |-> direction, maxTorque |-> MOTOR_MAX_TORQUE]

\* enableAngularMotor(true, targetSpeed, MOTOR_MAX_TORQUE) in onMouseDown of part_003
MotorOnMouseDown(direction) ==
    [enabled |-> TRUE, target |-> direction * MOTOR_TARGET_SPEED, maxTorque |-> MOTOR_MAX_TORQUE]

\* a release that leaves the target speed as it is
MotorOnMouseUpKeepsSpeed ==
    [enabled |-> TRUE, target |-> motor.target, maxTorque |-> MOTOR_MAX_TORQUE]

\* enableAngularMotor(true, 0, MOTOR_MAX_TORQUE) in onMouseUp of part_003
MotorOnMouseUp == [enabled |-> TRUE, target |-> 0, maxTorque |-> MOTOR_MAX_TORQUE]

onMouseDown(direction, randomAngle) ==
    /\ scriptDone
    /\ lastButton' = "down"
    /\ lastHandler' = Handler("mousedown", FALSE)
    /\ CASE variant = "plain" ->
              /\ IF toyGroupRef
                 THEN /\ Len(spinChains) < MaxSpins
                      /\ toyRotation' = [toyRotation EXCEPT !.y = SpinAngle(randomAngle, 0)]
                      /\ spinChains' = Append(spinChains,
                                              [angle |-> randomAngle, startTime |-> now])
                 ELSE UNCHANGED <<toyRotation, spinChains>>
              /\ UNCHANGED <<motor, bodyT, spinDir, prevSpinDir>>
         [] variant = "fallback" ->
              /\ toyRotation' = IF rigidBodies = {} /\ toyGroupRef
                                THEN [toyRotation EXCEPT !.y = RotationY(randomAngle, 1)]
                                ELSE toyRotation
              /\ UNCHANGED <<motor, bodyT, spinChains, spinDir, prevSpinDir>>
         [] variant = "cannon" ->
              /\ IF "body" \in rigidBodies
                 THEN \E q \in Poses : bodyT' = [bodyT EXCEPT !["body"] = q]
                 ELSE UNCHANGED bodyT
              /\ UNCHANGED <<motor, toyRotation, spinChains, spinDir, prevSpinDir>>
         [] variant = "motor" ->
              /\ IF "spinHinge" \in constraints
                 THEN /\ motor' = MotorOnMouseDown(direction)
                      /\ spinDir' = direction
                      /\ prevSpinDir' = spinDir
                 ELSE UNCHANGED <<motor, spinDir, prevSpinDir>>
              /\ UNCHANGED <<toyRotation, bodyT, spinChains>>
         [] OTHER ->
              UNCHANGED <<motor, toyRotation, bodyT, spinChains, spinDir, prevSpinDir>>
    /\ UNCHANGED <<variant, currentZoomDistance, startVars, loadState, toyGroupRef, refs,
                   parent, meshT, badBox, rigidBodies, collisionFlags, constraints, physicsMeshMap, inputVars,
                   now, loopVars, torsoWritten, faulted>>

onMouseUp ==
    /\ scriptDone
    /\ lastButton' = "up"
    /\ lastHandler' = Handler("mouseup", FALSE)
    /\ motor' = IF variant = "motor" /\ "spinHinge" \in constraints
                THEN MotorOnMouseUp ELSE motor
    /\ UNCHANGED <<variant, currentZoomDistance, startVars, loadState, sceneVars,
                   rigidBodies, collisionFlags, bodyT, constraints, physicsMeshMap, inputVars, spinVars,
                   loopVars, spinDir, prevSpinDir, torsoWritten, faulted>>

\* event.key of a keydown event
Keys == {"h", "x"}

\* toyGroupRef.traverse(...) in the keydown listener: a TypeError while
\* toyGroupRef is undefined
HierarchyThrows(key) == key = "h" /\ ~toyGroupRef

\* the keydown listener every script registers as its last statement
onKeyDown(key) ==
    /\ scriptDone
    /\ lastHandler' = Handler("keydown", HierarchyThrows(key))
    /\ UNCHANGED <<variant, currentZoomDistance, startVars, loadState, sceneVars, physVars,
                   inputVars, spinVars, loopVars, obsVars>>

----------------------------------------------------------------------------
(* The eased spin of part_000 *)

RemoveAt(seq, i) == SubSeq(seq, 1, i - 1) \o SubSeq(seq, i + 1, Len(seq))

\* the browser runs the animateSpin callback of chain i
animateSpin(i) ==
    LET chain == spinChains[i]
        elapsed == now - chain.startTime
    IN  /\ toyRotation' = [toyRotation EXCEPT !.y = SpinAngle(chain.angle, elapsed)]
        /\ spinChains' = IF SpinProgress(elapsed) < SPIN_DURATION
                         THEN spinChains ELSE RemoveAt(spinChains, i)
        /\ lastHandler' = Handler("animateSpin", FALSE)

SpinFrame ==
    /\ \E i \in 1 .. Len(spinChains) : animateSpin(i)
    /\ UNCHANGED <<variant, currentZoomDistance, startVars, loadState, toyGroupRef, refs,
                   parent, meshT, badBox, physVars, inputVars, now, loopVars, obsVars>>

\* time passes
Tick ==
    /\ variant = "plain"
    /\ now < MaxTime
    /\ now' = now + 1
    /\ UNCHANGED <<variant, currentZoomDistance, startVars, loadState, sceneVars, physVars,
                   inputVars, spinChains, loopVars, lastHandler, obsVars>>

----------------------------------------------------------------------------
(* The scripts as one system *)

Init == \E v \in Variants : Boot(v)

Next ==
    \/ RunScript
    \/ AmmoResolved
    \/ AmmoRejected
    \/ LoadSuccess
    \/ LoadError
    \/ AmmoPoll
    \/ AmmoScriptLoads
    \/ AnimationFrame
    \/ \E clientX \in ClientXs, clientY \in ClientYs : onMouseMove(clientX, clientY)
    \/ \E direction \in Directions, randomAngle \in RandomAngles :
          onMouseDown(direction, randomAngle)
    \/ onMouseUp
    \/ \E key \in Keys : onKeyDown(key)
    \/ SpinFrame
    \/ Tick

Spec == Init /\ [][Next]_vars

\* The runs in which the loader fails: the success callback never runs, and with
\* it no spin and no retry timer starts; wheel events come as well.
NextLoadFails ==
    \/ RunScript
    \/ AmmoResolved
    \/ AmmoRejected
    \/ LoadError
    \/ AnimationFrame
    \/ \E clientX \in ClientXs, clientY \in ClientYs : onMouseMove(clientX, clientY)
    \/ \E direction \in Directions, randomAngle \in RandomAngles :
          onMouseDown(direction, randomAngle)
    \/ onMouseUp
    \/ \E deltaY \in DeltaYs :
          /\ scriptDone
          /\ ZoomAfterWheel(currentZoomDistance, deltaY) - InitialZoomDistance
                \in -(MaxZoomTravel * ZOOM_SPEED) .. MaxZoomTravel * ZOOM_SPEED
          /\ onMouseWheel(deltaY)

SpecLoadFails == Init /\ [][NextLoadFails]_vars

\* syncPhysicsToThree of app.js as a function of the state it reads: the limb
\* references, their parents, the bodies and the transforms are drawn freely,
\* the limbs found being the first n of LimbOrder.
InitSync ==
    /\ variant = "ammo"
    /\ currentZoomDistance = InitialZoomDistance
    /\ scriptDone = TRUE /\ ammoScript = TRUE /\ ammoTimer = FALSE
    /\ ammoPromise = "resolved" /\ AmmoLib = TRUE /\ physicsWorld = TRUE
    /\ loadState = "loaded" /\ toyGroupRef = TRUE
    /\ \E n \in 0 .. Min(MaxLimbs + 1, Len(LimbOrder)) : refs = {"torso"} \cup FirstLimbs(n)
    /\ parent \in [Limbs -> {"gltf", "scene"}]
    /\ \A l \in Limbs \ refs : parent[l] = "gltf"
    /\ meshT = [p \in Parts \cup {"toy"} |-> 0]
    /\ toyRotation = [x |-> 0, y |-> 0]
    /\ badBox = {}
    /\ \E ls \in SUBSET (refs \cap Limbs) : rigidBodies = {"anchor", "torso"} \cup ls
    /\ collisionFlags = [b \in BodyNames |-> IF b = "anchor" THEN CF_KINEMATIC_OBJECT ELSE 0]
    /\ bodyT \in [BodyNames -> TVals]
    /\ \A b \in BodyNames \ (rigidBodies \ {"anchor"}) : bodyT[b] = 0
    /\ constraints = {}
    /\ physicsMeshMap = {}
    /\ motor = NoMotor
    /\ mouse = [x |-> 0, y |-> 0]
    /\ targetAnchor = [x |-> 0, z |-> 0]
    /\ tilt = [leftRight |-> 0, frontBack |-> 0]
    /\ spinChains = <<>> /\ now = 0
    /\ pendingAnimate = 1 /\ stamp = 0 /\ lastTime = 0 /\ delta = 0
    /\ currentAnchor = [x |-> 0, z |-> 0]
    /\ lastHandler = Handler("none", FALSE)
    /\ lastButton = "up" /\ spinDir = 0 /\ prevSpinDir = 0
    /\ torsoWritten = FALSE /\ faulted = FALSE

\* one call of syncPhysicsToThree
SyncCall ==
    /\ lastHandler.name = "none"
    /\ meshT' = syncPhysicsToThree(meshT, bodyT, AmmoLib)
    /\ lastHandler' = Handler("sync", FALSE)
    /\ UNCHANGED <<variant, currentZoomDistance, startVars, loadState, toyGroupRef, refs,
                   parent, toyRotation, badBox, physVars, inputVars, spinVars, loopVars,
                   obsVars>>

SpecSync == InitSync /\ [][SyncCall]_vars

\* createRigidBodies and createConstraints of app.js as a function of what they
\* are given: the nodes found, the boxes, and the collision flags with which
\* btRigidBody hands back the anchor and the torso (held in collisionFlags
\* until the call).
CreationFlags == 0 .. 2 * CF_KINEMATIC_OBJECT - 1

InitCreate ==
    /\ variant = "ammo"
    /\ currentZoomDistance = InitialZoomDistance
    /\ scriptDone = TRUE /\ ammoScript = TRUE /\ ammoTimer = FALSE
    /\ ammoPromise = "resolved" /\ AmmoLib = TRUE /\ physicsWorld = TRUE
    /\ loadState = "loading" /\ toyGroupRef = TRUE
    /\ \E s \in ScenesOf("ammo") :
          /\ refs = (IF s.body THEN {"torso"} ELSE {}) \cup s.limbs
          /\ badBox = s.badBox
    /\ parent = [l \in Limbs |-> IF l \in refs THEN "scene" ELSE "gltf"]
    /\ meshT = [p \in Parts \cup {"toy"} |-> 0]
    /\ toyRotation = [x |-> 0, y |-> 0]
    /\ rigidBodies = {}
    /\ collisionFlags \in [BodyNames -> CreationFlags]
    /\ \A b \in BodyNames \ {"anchor", "torso"} : collisionFlags[b] = 0
    /\ bodyT = [b \in BodyNames |-> 0]
    /\ constraints = {}
    /\ physicsMeshMap = {}
    /\ motor = NoMotor
    /\ mouse = [x |-> 0, y |-> 0]
    /\ targetAnchor = [x |-> 0, z |-> 0]
    /\ tilt = [leftRight |-> 0, frontBack |-> 0]
    /\ spinChains = <<>> /\ now = 0
    /\ pendingAnimate = 1 /\ stamp = 0 /\ lastTime = 0 /\ delta = 0
    /\ currentAnchor = [x |-> 0, z |-> 0]
    /\ lastHandler = Handler("none", FALSE)
    /\ lastButton = "up" /\ spinDir = 0 /\ prevSpinDir = 0
    /\ torsoWritten = FALSE /\ faulted = FALSE

\* if (bodyMainRef && physicsWorld) { createRigidBodies(); if (anchor && torso)
\* createConstraints(); } in the load callback of app.js
CreateCall ==
    LET scene == [body |-> "torso" \in refs, limbs |-> refs \cap Limbs, badBox |-> badBox]
        made == IF "torso" \in refs /\ physicsWorld
                THEN createRigidBodiesAmmoFrom(scene, refs, AmmoLib, physicsWorld,
                        [anchor |-> collisionFlags["anchor"],
                         torso |-> collisionFlags["torso"]])
                ELSE [bodies |-> {}, flags |-> collisionFlags, threw |-> FALSE]
        ready == ~made.threw /\ "anchor" \in made.bodies /\ "torso" \in made.bodies
        cons == IF ready
                THEN createConstraintsAmmo(made.bodies, refs, AmmoLib, physicsWorld)
                ELSE {}
    IN  /\ loadState = "loading"
        /\ rigidBodies' = made.bodies
        /\ collisionFlags' = made.flags
        /\ constraints' = cons
        /\ physicsMeshMap' = IF ready THEN PhysicsMeshMapAmmo(made.bodies, refs)
                                      ELSE physicsMeshMap
        /\ loadState' = IF made.threw THEN "aborted" ELSE "loaded"
        /\ lastHandler' = Handler("createRigidBodies", made.threw)
        /\ UNCHANGED <<variant, currentZoomDistance, startVars, sceneVars, bodyT, motor,
                       inputVars, spinVars, loopVars, obsVars>>

SpecCreate == InitCreate /\ [][CreateCall]_vars

\* initPhysics of part_002 as a function of the nodes findToyParts has found:
\* the state is the one in which the .then callback of initAmmoPhysics has
\* stored the library and is about to call initPhysics.
InitPhysics5 ==
    /\ variant = "ammo5"
    /\ currentZoomDistance = InitialZoomDistance
    /\ scriptDone = TRUE /\ ammoScript = TRUE /\ ammoTimer = FALSE
    /\ ammoPromise = "resolved" /\ AmmoLib = TRUE /\ physicsWorld = FALSE
    /\ loadState = "loaded" /\ toyGroupRef = TRUE
    /\ \E s \in ScenesOf("ammo5") :
          refs = (IF s.body THEN {"torso"} ELSE {}) \cup s.limbs
    /\ parent = [l \in Limbs |-> "gltf"]
    /\ meshT = [p \in Parts \cup {"toy"} |-> 0]
    /\ toyRotation = [x |-> 0, y |-> 0]
    /\ badBox = {}
    /\ rigidBodies = {}
    /\ collisionFlags = [b \in BodyNames |-> 0]
    /\ bodyT = [b \in BodyNames |-> 0]
    /\ constraints = {}
    /\ physicsMeshMap = {}
    /\ motor = NoMotor
    /\ mouse = [x |-> 0, y |-> 0]
    /\ targetAnchor = [x |-> 0, z |-> 0]
    /\ tilt = [leftRight |-> 0, frontBack |-> 0]
    /\ spinChains = <<>> /\ now = 0
    /\ pendingAnimate = 1 /\ stamp = 0 /\ lastTime = 0 /\ delta = 0
    /\ currentAnchor = [x |-> 0, z |-> 0]
    /\ lastHandler = Handler("none", FALSE)
    /\ lastButton = "up" /\ spinDir = 0 /\ prevSpinDir = 0
    /\ torsoWritten = FALSE /\ faulted = FALSE

\* initPhysics of part_002: the world is made, then createRigidBodies and
\* createConstraints run
initPhysics5 ==
    /\ variant = "ammo5"
    /\ AmmoLib
    /\ ~physicsWorld
    /\ physicsWorld' = TRUE
    /\ rigidBodies' = createRigidBodies5(refs)
    /\ constraints' = createConstraints5(createRigidBodies5(refs), refs)
    /\ bodyT' = BodiesAtMeshes(createRigidBodies5(refs))
    /\ lastHandler' = Handler("initPhysics", FALSE)
    /\ UNCHANGED <<variant, currentZoomDistance, scriptDone, ammoScript, ammoTimer,
                   ammoPromise, AmmoLib, loadState, sceneVars, collisionFlags,
                   physicsMeshMap, motor, inputVars, spinVars, loopVars, obsVars>>

\* the call of initPhysics and the frames that follow it
SpecInitPhysics5 == InitPhysics5 /\ [][initPhysics5 \/ AnimationFrame]_vars

\* The frame loop by itself: start-up, the load and the frames, with no input
\* events (no listener touches requestAnimationFrame).
NextFrames ==
    \/ RunScript
    \/ AmmoResolved
    \/ AmmoRejected
    \/ LoadSuccess
    \/ LoadError
    \/ AmmoPoll
    \/ AmmoScriptLoads
    \/ AnimationFrame

\* the browser runs the script, and runs a registered frame callback in the end
SpecLive ==
    Init /\ [][NextFrames]_vars /\ WF_vars(RunScript) /\ WF_vars(AnimationFrame)

\* the frame loop with the timers as well: an armed retry timer fires in the
\* end, and the loader ends the load
SpecPoll ==
    /\ Init /\ [][NextFrames]_vars
    /\ WF_vars(RunScript) /\ WF_vars(AnimationFrame)
    /\ WF_vars(LoadSuccess \/ LoadError) /\ WF_vars(AmmoPoll)

\* the frame in which the browser runs the animateSpin callback of chain i
SpinFrameOf(i) == SpinFrame /\ i \in 1 .. Len(spinChains) /\ animateSpin(i)

\* part_000 with its clicks and spins: the clock advances, and the browser runs
\* every registered animateSpin callback in the end
NextSpin ==
    \/ RunScript
    \/ LoadSuccess
    \/ \E direction \in Directions, randomAngle \in RandomAngles :
          onMouseDown(direction, randomAngle)
    \/ SpinFrame
    \/ Tick

SpecSpin ==
    /\ Boot("plain") /\ [][NextSpin]_vars
    /\ WF_vars(Tick)
    /\ \A i \in 1 .. MaxSpins : WF_vars(SpinFrameOf(i))

----------------------------------------------------------------------------
(* Claims *)

\* C1: in every script that handles the wheel event, after any sequence of wheel
\* events with any deltaY the camera distance currentZoomDistance lies within
\* [MIN_ZOOM_DISTANCE, MAX_ZOOM_DISTANCE], starting from 12.
C1_ZoomWithinLimits ==
    /\ MIN_ZOOM_DISTANCE <= currentZoomDistance
    /\ currentZoomDistance <= MAX_ZOOM_DISTANCE

\* wheel events have zoomed in until the lower limit holds the distance
C1_Witness ==
    /\ lastHandler.name = "wheel"
    /\ currentZoomDistance = MIN_ZOOM_DISTANCE

\* C2: in the Ammo motor scripts start-up launches one animation loop: as long
\* as no animate call has met an exception, at most one animate callback is
\* registered with requestAnimationFrame at any time.
C2_OneAnimationLoop ==
    (variant \in AmmoMotorVariants /\ ~faulted) => pendingAnimate <= 1

\* the load callback has run createRigidBodies or setupPhysicsBodies to its end
PhysicsSetupFinished ==
    /\ loadState = "loaded"
    /\ ("torso" \in rigidBodies \/ "body" \in rigidBodies)

Rank(entry) ==
    CASE entry = "step" -> 1
      [] entry \in {"sync", "syncError"} -> 2
      [] OTHER -> 3

\* the last handler was an animate call whose entries are in the order step, copy, render
FrameInOrder ==
    lastHandler.name = "animate" =>
        \A i, j \in DOMAIN lastHandler.log :
            i < j => Rank(lastHandler.log[i]) < Rank(lastHandler.log[j])

\* the last handler was an animate call that stepped the world and copied the transforms
SteppedFrame ==
    /\ lastHandler.name = "animate"
    /\ \E i, j \in DOMAIN lastHandler.log :
          lastHandler.log[i] = "step" /\ lastHandler.log[j] = "sync"

\* the parts that have both a render object and a rigid body of their own
MatchingParts == {p \in Parts : p \in refs /\ p \in rigidBodies}

\* the toy group of app.js follows the kinematic body
RootMatches ==
    (variant = "cannon" /\ toyGroupRef /\ "body" \in rigidBodies) =>
        meshT["toy"] = bodyT["body"]

C5_FallbackWithoutLimbs ==
    (variant = "fallback" /\ toyGroupRef /\ refs = {}) =>
        /\ loadState = "loaded"
        /\ rigidBodies = {}
        /\ lastHandler.name = "mousemove" => toyRotation = TiltRotation(mouse)
        /\ lastHandler.name = "mousedown" =>
              \E randomAngle \in RandomAngles : toyRotation.y = RotationY(randomAngle, 1)

\* C6: in the Ammo script of app.js safeSetWorldTransform throws and leaves the
\* transform as it is when the body is the torso, sets the transform without
\* error for any other body, and application code never writes the torso's
\* world transform once the torso body exists.
C6_TorsoIsPhysicsOwned ==
    (variant = "ammo" /\ "torso" \in rigidBodies) =>
        /\ \A body \in rigidBodies, transform \in TVals :
              LET r == safeSetWorldTransform(body, transform, bodyT)
              IN  IF body = "torso"
                  THEN r.threw /\ r.T = bodyT
                  ELSE ~r.threw /\ r.T[body] = transform
                       /\ \A other \in BodyNames \ {body} : r.T[other] = bodyT[other]
        /\ ~torsoWritten

\* an animate call of the Ammo script of app.js has placed the anchor through
\* safeSetWorldTransform and stepped a world that holds the torso
C6_Witness ==
    /\ variant = "ammo"
    /\ "torso" \in rigidBodies
    /\ "anchor" \in rigidBodies
    /\ lastHandler.name = "animate"
    /\ lastHandler.log = <<"step", "sync", "render">>
    /\ bodyT["torso"] = MaxPose
    /\ bodyT["anchor"] = AnchorPose

\* C7: for every mouse position with mouse.x and mouse.y in [-1, 1] the tilt
\* angles of updateToyInteraction are linear and bounded: the left/right angle is
\* mouse.x * maxToyTiltY within [-PI/8, PI/8], the front/back angle is
\* mouse.y * maxToyTiltX within [-PI/6, PI/6], and position 0 gives angle 0.
\* (mouse.x and the angles are numerators over HalfWidth, mouse.y over HalfHeight.)
C7_TiltLinearAndBounded ==
    /\ (variant = "cannon" /\ lastHandler.name = "mousemove" /\ "body" \in rigidBodies) =>
          /\ tilt.leftRight * 8 = mouse.x * PI
          /\ tilt.frontBack * 6 = mouse.y * PI
          /\ -(PI * HalfWidth) <= tilt.leftRight * 8 /\ tilt.leftRight * 8 <= PI * HalfWidth
          /\ -(PI * HalfHeight) <= tilt.frontBack * 6 /\ tilt.frontBack * 6 <= PI * HalfHeight
          /\ mouse.x = 0 => tilt.leftRight = 0
          /\ mouse.y = 0 => tilt.frontBack = 0
    /\ (variant = "fallback" /\ lastHandler.name = "mousemove" /\ toyGroupRef
          /\ "body" \notin rigidBodies) =>
          /\ toyRotation.y * 8 = RotationY(mouse.x * PI, HalfWidth)
          /\ toyRotation.x * 6 = RotationX(mouse.y * PI, HalfHeight)
          /\ -RotationY(PI, 1) <= toyRotation.y * 8 /\ toyRotation.y * 8 <= RotationY(PI, 1)
          /\ -RotationX(PI, 1) <= toyRotation.x * 6 /\ toyRotation.x * 6 <= RotationX(PI, 1)
          /\ mouse.x = 0 => toyRotation.y = 0
          /\ mouse.y = 0 => toyRotation.x = 0

\* the mouse has moved to the right edge and the top edge of the window of the
\* Cannon script of app.js, and the tilt is at its limits
C7_Witness ==
    /\ variant = "cannon"
    /\ lastHandler.name = "mousemove"
    /\ "body" \in rigidBodies
    /\ mouse.x = HalfWidth /\ mouse.y = HalfHeight
    /\ tilt.leftRight * 8 = PI * HalfWidth
    /\ tilt.frontBack * 6 = PI * HalfHeight

\* C8: in part_000, once the model has loaded, every mousemove completes without
\* error and leaves toyGroupRef.rotation.y = mouse.x * maxToyTiltY and
\* toyGroupRef.rotation.x = mouse.y * maxToyTiltX.
C8_MouseMoveTiltsToy ==
    (variant = "plain" /\ toyGroupRef /\ lastHandler.name = "mousemove") =>
        /\ ~lastHandler.threw
        /\ toyRotation = TiltRotation(mouse)

\* C9: for every two consecutive mousedown events that each start a spin, the
\* second chooses the direction opposite to the one the first chose.
C9_SpinDirectionAlternates ==
    prevSpinDir # 0 => spinDir = -prevSpinDir

\* C10: in the motor script, after a mouseup that comes once the spin hinge
\* exists the motor's target speed is 0 until the next mousedown, and a target
\* speed other than 0 (+8 or -8) is in force only between a mousedown and the
\* mouseup that follows it.
C10_ReleaseStopsSpin ==
    (variant = "motor" /\ "spinHinge" \in constraints) =>
        /\ lastButton = "up" => motor.target = 0
        /\ motor.target # 0 =>
              /\ lastButton = "down"
              /\ motor.target \in {MOTOR_TARGET_SPEED, -MOTOR_TARGET_SPEED}

\* a spin was started and the mouse was then released
C10_Witness ==
    /\ variant = "motor"
    /\ "spinHinge" \in constraints
    /\ spinDir # 0
    /\ lastHandler.name = "mouseup"
    /\ motor.enabled /\ motor.target = 0 /\ motor.maxTorque = MOTOR_MAX_TORQUE

\* C11: pressing the 'h' key logs the toy hierarchy in every state in which
\* the key event can occur, before the model has loaded and after a load failure
\* included, without raising an error and without changing application state.
C11_HierarchyKeyNeverThrows ==
    lastHandler.name = "keydown" => ~lastHandler.threw

\* C12: in part_000 a mousedown with the model loaded, and the spin it starts,
\* turn the toy about the Z axis only: the X and Y components of the toy's
\* rotation stay as they were.
C12_ClickTurnsAboutZOnly ==
    [][(variant = "plain" /\ toyGroupRef /\ lastHandler'.name \in {"mousedown", "animateSpin"})
          => (toyRotation'.x = toyRotation.x /\ toyRotation'.y = toyRotation.y)]_vars

\* C13: the frame loop never halts on its own: in every variant every call of
\* animate registers at least one further call, also when the physics step, the
\* copy or the render throws, so that once the script has run a callback is
\* always registered and animate runs again and again.
C13_FrameLoopNeverHalts ==
    /\ [](scriptDone => pendingAnimate >= 1)
    /\ []<>(lastHandler.name = "animate")

\* an animate call has met an exception and a callback is registered all the same
C13_Witness ==
    /\ lastHandler.name = "animate"
    /\ lastHandler.threw
    /\ faulted
    /\ pendingAnimate >= 1

\* C14: when the GLTF load fails the failure is only logged: toyGroupRef stays
\* unset, no rigid body and no constraint is created afterwards, the frame loop
\* keeps rendering, and every later mouse move, mouse down, mouse up and wheel
\* event completes without raising an error.
C14_LoadFailureIsOnlyLogged ==
    loadState = "failed" =>
        /\ ~toyGroupRef
        /\ rigidBodies = {} /\ constraints = {}
        /\ pendingAnimate >= 1
        /\ lastHandler.name = "animate" =>
              \/ lastHandler.threw
              \/ lastHandler.log = <<>>
              \/ lastHandler.log[Len(lastHandler.log)] = "render"
        /\ lastHandler.name \in {"mousemove", "mousedown", "mouseup", "wheel"} =>
              ~lastHandler.threw

\* after a failed load the mouse was pressed, the wheel was turned and the mouse
\* was moved to the right edge of the window
C14_Witness ==
    /\ loadState = "failed"
    /\ lastHandler.name = "mousemove"
    /\ mouse.x = HalfWidth
    /\ lastButton = "down"
    /\ currentZoomDistance = InitialZoomDistance + 2 * ZOOM_SPEED

\* C15: in the scripts whose animate wraps its body in try/catch, a frame in
\* which an exception is thrown after the first requestAnimationFrame call leaves
\* exactly one callback registered for the next frame: a frame takes one callback
\* and registers one, so the number of registered callbacks never grows.
C15_FrameKeepsOneCallback ==
    [][AnimationFrame => pendingAnimate' = pendingAnimate]_vars

\* C16: in the Ammo scripts the time step delta that animate computes and
\* passes to physicsWorld.stepSimulation lies within [0, 1/60] s in every call,
\* the call with the default currentTime = 0 from the Ammo() promise included.
C16_DeltaWithinStep ==
    (variant \in DeltaVariants /\ lastHandler.name = "animate"
        /\ \E i \in DOMAIN lastHandler.log : lastHandler.log[i] = "step") =>
        (0 <= delta /\ delta <= DeltaCap)

\* some found limb is still a child of the GLTF hierarchy
LimbStillParented == \E l \in Limbs \cap refs : parent[l] # "scene"

\* C17: in the Ammo script of app.js syncPhysicsToThree writes no physics
\* transform into a limb whose parent is not the scene: while any found limb is
\* parented elsewhere the call returns and leaves the transform of every render
\* object, the torso included, as it was.
C17_NoSyncIntoParentedLimbs ==
    [][LimbStillParented => meshT' = meshT]_vars

\* syncPhysicsToThree was called with moved torso and limb bodies while a limb
\* was still parented, and the render objects kept their transforms
C17_Witness ==
    /\ lastHandler.name = "sync"
    /\ LimbStillParented
    /\ bodyT["torso"] = MaxPose /\ meshT["torso"] = 0
    /\ \E l \in Limbs \cap refs \cap rigidBodies :
          parent[l] = "scene" /\ bodyT[l] = MaxPose /\ meshT[l] = 0

\* C18: in both scripts of app.js every found limb is attached to the scene
\* before a rigid body is made for it: in no state does a limb rigid body exist
\* while the limb's render object is still a child of the GLTF hierarchy.
C18_LimbsAttachedBeforeBodies ==
    variant \in {"cannon", "ammo"} =>
        \A l \in Limbs : l \in rigidBodies => parent[l] = "scene"

\* the Ammo script of app.js has made a body for a limb it had attached to the scene
C18_Witness ==
    /\ variant = "ammo"
    /\ loadState = "loaded"
    /\ \E l \in Limbs \cap refs : l \in rigidBodies /\ parent[l] = "scene"

C20_ConstraintsJoinExistingBodies ==
    variant = "ammo" =>
        /\ "spinHinge" \in constraints => {"anchor", "torso"} \subseteq rigidBodies
        /\ \A l \in Limbs :
              /\ l \in constraints => (l \in rigidBodies /\ l \in refs)
              /\ l \in physicsMeshMap => (l \in rigidBodies /\ l \in refs)

\* the load callback has hinged the torso to the anchor and a limb to the torso
\* and has entered both in physicsMeshMap
C20_Witness ==
    /\ variant = "ammo"
    /\ "spinHinge" \in constraints
    /\ "torso" \in physicsMeshMap
    /\ \E l \in Limbs : l \in constraints /\ l \in physicsMeshMap /\ l \in rigidBodies

C22_PollingEndsInInitPhysics ==
    (variant = "ammo5" /\ loadState = "loaded" /\ ammoScript) ~> physicsWorld

\* C23: in the Ammo scripts with a motor, a step that leaves the target
\* (targetAnchorX, targetAnchorZ) as it is never takes the anchor offset past
\* the target or away from it: on each axis |target - current| after the step
\* is at most its value before; and the offsets stay within [-2, 2].
C23_AnchorApproachesTarget ==
    /\ [][(variant \in AmmoMotorVariants /\ targetAnchor' = targetAnchor) =>
            /\ Abs(targetAnchor.x - currentAnchor.x') <= Abs(targetAnchor.x - currentAnchor.x)
            /\ Abs(targetAnchor.z - currentAnchor.z') <= Abs(targetAnchor.z - currentAnchor.z)]_vars
    /\ [](variant \in AmmoMotorVariants =>
            /\ Abs(currentAnchor.x) <= ANCHOR_RANGE * AnchorUnits
            /\ Abs(currentAnchor.z) <= ANCHOR_RANGE * AnchorUnits)

\* a frame has moved the anchor part of the way to the target the cursor set
C23_Witness ==
    /\ variant \in AmmoMotorVariants
    /\ lastHandler.name = "animate"
    /\ delta > 0
    /\ currentAnchor.x # 0
    /\ currentAnchor.x # targetAnchor.x
    /\ Abs(targetAnchor.x - currentAnchor.x) < Abs(targetAnchor.x)

\* C24: in part_003 a mousedown or mouseup that arrives while
\* constraints.spinHinge does not exist changes no application state and raises
\* no error; once the hinge exists, the motor's target speed is one of
\* -MOTOR_TARGET_SPEED, 0, +MOTOR_TARGET_SPEED and the motor is enabled.
C24_EarlyClicksIgnoredMotorSpeedsFixed ==
    /\ [][(/\ variant = "motor"
           /\ "spinHinge" \notin constraints
           /\ \/ onMouseUp
              \/ \E direction \in Directions, randomAngle \in RandomAngles :
                    onMouseDown(direction, randomAngle))
          => /\ UNCHANGED <<currentZoomDistance, startVars, loadState, sceneVars,
                            physVars, inputVars, spinVars, loopVars>>
             /\ ~lastHandler'.threw]_vars
    /\ []((variant = "motor" /\ "spinHinge" \in constraints) =>
            /\ motor.enabled
            /\ motor.target \in {-MOTOR_TARGET_SPEED, 0, MOTOR_TARGET_SPEED})

\* a press came before the hinge existed and left nothing behind: the hinge
\* made later still has the motor createConstraints gave it
C24_Witness ==
    /\ variant = "motor"
    /\ lastButton = "down"
    /\ "spinHinge" \in constraints
    /\ motor = [enabled |-> TRUE, target |-> 0, maxTorque |-> InitialMotorTorque]

\* a chain started at time t with the angle a waits for a frame
Spinning(a, t) ==
    \E i \in 1 .. Len(spinChains) : spinChains[i] = [angle |-> a, startTime |-> t]

====
